---- MODULE Spec2Model ----
(***************************************************************************)
(* The emulator broker: the registry of emulators (server.emulators), the  *)
(* per-emulator record (spec, cmd, state) and the RPC handlers of          *)
(* broker/server.go.  Every handler takes s.mu on entry and releases it on *)
(* return, so each handler is one atomic action.                           *)
(*                                                                         *)
(* ReportEmulatorOnline and the readiness signal are declared by           *)
(* broker.proto and exercised by the tests, but their implementation is    *)
(* not part of the sources; they are modelled from the specification.      *)
(***************************************************************************)
EXTENDS Integers, Sequences, FiniteSets, TLC

\* emulator states
OFFLINE == "offline"
STARTING == "starting"
ONLINE == "online"

\* Cap on the number of child processes launched in one behaviour.
MaxSpawns == 2

\* Ids used by callers; an id is unregistered until CreateEmulatorSpec stores it.
EmulatorIds == {"dummy", "real"}

\* Values of resolved_target / resolved_host used by callers.
ResolvedHosts == {"", "t"}

\* Target patterns: the one every submitted spec carries, and the one an
\* emulator may add when it reports online.
SpecPatterns == {"pattern1"}
ReportedPatterns == {"newPattern"}

\* Targets callers resolve: one that a spec's pattern matches, one that none does.
Targets == SpecPatterns \cup {"foo"}

\* message EmulatorSpec: the values callers submit.  As in the tests, "real"
\* is started on demand and "dummy" is not.
EmulatorSpec ==
    {[id |-> i, target_pattern |-> SpecPatterns,
      start_on_demand |-> (i = "real"), resolved_target |-> h] :
        i \in EmulatorIds, h \in ResolvedHosts}

\* grpc status codes seen by the caller.  An error built with fmt.Errorf
\* carries no grpc status and reaches the caller as Unknown.
OK == "OK"
AlreadyExists == "AlreadyExists"
NotFound == "NotFound"
FailedPrecondition == "FailedPrecondition"
Unknown == "Unknown"

VARIABLES
    emulators,         \* server.emulators: id -> [spec, cmd, state]
    children,          \* child processes launched so far, indexed by pid
    readiness,         \* id -> the record's one-shot readiness signal
    deadline_elapsed,  \* ids whose start deadline passed while STARTING
    last,              \* the most recent RPC: operation, id, status, result
    resolveRules,      \* the table of resolve rules: rule_id -> rule
    proxies,           \* the proxies created so far
    mu,                \* server.mu: "free", or the worker that holds it
    pc,                \* worker -> the call it serves and how far it got
    port_picker,       \* the port picker: its ports and the ones it has leased
    bound              \* ports that other programs have bound

vars == <<emulators, children, readiness, deadline_elapsed, last, resolveRules, proxies,
          mu, pc, port_picker, bound>>

\* The workers that serve incoming calls, one call at a time each.
Workers == {"w1", "w2"}

\* A worker that serves no call.
idle == [op |-> "idle", id |-> "", at |-> "idle"]

\* cmd of a record that was never started (a nil *exec.Cmd).
NoCmd == 0

\* A constructor that resets the resolved target of the spec it stores.
newEmulator_drops_target(spec) ==
    [spec |-> [spec EXCEPT !.resolved_target = ""], cmd |-> 0, state |-> "offline"]

\* func newEmulator
newEmulator(spec) == [spec |-> spec, cmd |-> NoCmd, state |-> OFFLINE]

\* The state a caller saw on entry, "absent" for an unregistered id.
stateOf(id) == IF id \in DOMAIN emulators THEN emulators[id].state ELSE "absent"

\* What a handler returned.
returned(op, id, code, result) ==
    [op |-> op, id |-> id, code |-> code, before |-> stateOf(id), result |-> result]

\* A removal that empties the map.
without_any(m, id) == [k \in {} |-> m[k]]

\* A map with one key removed / one key set.
without(m, id) == [k \in DOMAIN m \ {id} |-> m[k]]
with(m, id, v) == [k \in DOMAIN m \cup {id} |-> IF k = id THEN v ELSE m[k]]

----------------------------------------------------------------------------
\* The readiness signal of a record (modelled from the specification):
\* armed on OFFLINE -> STARTING, fired on leaving STARTING.
\* cycles counts the arms, fires counts the fires.
newReadiness == [signal |-> "unarmed", cycles |-> 0, fires |-> 0]

readiness_arm(r) == [r EXCEPT !.signal = "armed", !.cycles = @ + 1]

readiness_fire(r) == [r EXCEPT !.signal = "fired", !.fires = @ + 1]

----------------------------------------------------------------------------
\* A start that is refused only while STARTING, so that an ONLINE emulator
\* can be started again.
emulator_start_refused_starting_only(emu) == emu.state = STARTING

\* func (emu *emulator) start: the test that refuses the start.
emulator_start_refused(emu) == emu.state # OFFLINE

\* A start that forgets to keep the command in the record.
emulator_start_without_cmd(emu, pid) == [emu EXCEPT !.state = STARTING]

\* A start that takes the emulator for ready at once.
emulator_start_online(emu, pid) == [emu EXCEPT !.cmd = pid, !.state = "online"]

\* func (emu *emulator) start: the record after a start that went through.
emulator_start(emu, pid) == [emu EXCEPT !.cmd = pid, !.state = STARTING]

\* func (emu *emulator) stop: the test that refuses the stop.
emulator_stop_refused(emu) == emu.state # STARTING \/ emu.state # ONLINE

\* func (emu *emulator) stop: the record after a stop that went through.
emulator_stop(emu) == [emu EXCEPT !.state = OFFLINE]

\* A child process as exec.Command + go emu.run() leave it.
newChild(id) == [owner |-> id, status |-> "running", interrupted |-> FALSE]

Init ==
    /\ emulators = <<>>
    /\ children = <<>>
    /\ readiness = <<>>
    /\ deadline_elapsed = {}
    /\ last = [op |-> "New", id |-> "", code |-> OK, before |-> "absent", result |-> {}]
    /\ resolveRules = <<>>
    /\ proxies = {}
    /\ mu = "free"
    /\ pc = [w \in Workers |-> idle]
    /\ port_picker = [ports |-> {}, leased |-> {}]
    /\ bound = {}

\* A create that skips the lookup and stores over an existing entry.
CreateEmulatorSpec_overwrite(SpecId, Spec) ==
    /\ emulators' = with(emulators, SpecId, newEmulator(Spec))
    /\ readiness' = with(readiness, SpecId, newReadiness)
    /\ last' = returned("CreateEmulatorSpec", SpecId, OK, {Spec})
    /\ UNCHANGED <<children, deadline_elapsed, resolveRules, proxies, port_picker, bound, mu, pc>>

\* func (s *server) CreateEmulatorSpec
CreateEmulatorSpec(SpecId, Spec) ==
    IF SpecId \in DOMAIN emulators
    THEN /\ last' = returned("CreateEmulatorSpec", SpecId, AlreadyExists, {})
         /\ UNCHANGED <<emulators, children, readiness, deadline_elapsed, resolveRules, proxies, port_picker, bound, mu, pc>>
    ELSE /\ emulators' = with(emulators, SpecId, newEmulator(Spec))
         /\ readiness' = with(readiness, SpecId, newReadiness)
         /\ last' = returned("CreateEmulatorSpec", SpecId, OK, {Spec})
         /\ UNCHANGED <<children, deadline_elapsed, resolveRules, proxies, port_picker, bound, mu, pc>>

\* func (s *server) GetEmulatorSpec: what the lookup answers.
GetEmulatorSpec_response(specId) ==
    IF specId \notin DOMAIN emulators
    THEN [code |-> NotFound, result |-> {}]
    ELSE [code |-> OK, result |-> {emulators[specId].spec}]

\* func (s *server) GetEmulatorSpec
GetEmulatorSpec(specId) ==
    /\ last' = returned("GetEmulatorSpec", specId,
                        GetEmulatorSpec_response(specId).code,
                        GetEmulatorSpec_response(specId).result)
    /\ UNCHANGED <<emulators, children, readiness, deadline_elapsed, resolveRules, proxies, port_picker, bound, mu, pc>>

\* func (s *server) UpdateEmulatorSpec: the entry is looked up by spec.Id.
UpdateEmulatorSpec(spec) ==
    IF spec.id \notin DOMAIN emulators
    THEN /\ last' = returned("UpdateEmulatorSpec", spec.id, NotFound, {})
         /\ UNCHANGED <<emulators, children, readiness, deadline_elapsed, resolveRules, proxies, port_picker, bound, mu, pc>>
    ELSE /\ emulators' = [emulators EXCEPT ![spec.id].spec = spec]
         /\ last' = returned("UpdateEmulatorSpec", spec.id, OK, {spec})
         /\ UNCHANGED <<children, readiness, deadline_elapsed, resolveRules, proxies, port_picker, bound, mu, pc>>

\* func (s *server) DeleteEmulatorSpec: the entry is dropped as it is; its
\* child, if any, is left alone.
DeleteEmulatorSpec(specId) ==
    IF specId \notin DOMAIN emulators
    THEN /\ last' = returned("DeleteEmulatorSpec", specId, NotFound, {})
         /\ UNCHANGED <<emulators, children, readiness, deadline_elapsed, resolveRules, proxies, port_picker, bound, mu, pc>>
    ELSE /\ emulators' = without(emulators, specId)
         /\ readiness' = without(readiness, specId)
         /\ deadline_elapsed' = deadline_elapsed \ {specId}
         /\ last' = returned("DeleteEmulatorSpec", specId, OK, {})
         /\ UNCHANGED <<children, resolveRules, proxies, port_picker, bound, mu, pc>>

\* func (s *server) ListEmulatorSpecs
ListEmulatorSpecs ==
    /\ last' = returned("ListEmulatorSpecs", "", OK,
                        {emulators[id].spec : id \in DOMAIN emulators})
    /\ UNCHANGED <<emulators, children, readiness, deadline_elapsed, resolveRules, proxies, port_picker, bound, mu, pc>>

\* func (s *server) StartEmulator between s.mu.Lock() and the deferred
\* s.mu.Unlock(), with emulator.start inlined.  exec.Command and the pipes
\* prepare the child; go emu.run() hands it to a goroutine of its own, which
\* launches it and waits for it.
StartEmulator_locked(id, pipes_ok) ==
    IF id \notin DOMAIN emulators
    THEN /\ last' = returned("StartEmulator", id, FailedPrecondition, {})
         /\ UNCHANGED <<emulators, children, readiness, deadline_elapsed, resolveRules, proxies, port_picker, bound>>
    ELSE IF emulator_start_refused(emulators[id]) \/ ~pipes_ok
    THEN /\ last' = returned("StartEmulator", id, Unknown, {})
         /\ UNCHANGED <<emulators, children, readiness, deadline_elapsed, resolveRules, proxies, port_picker, bound>>
    ELSE /\ Len(children) < MaxSpawns
         /\ children' = Append(children, newChild(id))
         /\ emulators' = [emulators EXCEPT ![id] = emulator_start(@, Len(children) + 1)]
         /\ readiness' = [readiness EXCEPT ![id] = readiness_arm(@)]
         /\ last' = returned("StartEmulator", id, OK, {})
         /\ UNCHANGED <<deadline_elapsed, resolveRules, proxies, port_picker, bound>>

\* func (s *server) StartEmulator.  The handler returns as soon as the child
\* has been handed to go emu.run().
StartEmulator(id, pipes_ok) ==
    /\ StartEmulator_locked(id, pipes_ok)
    /\ UNCHANGED <<mu, pc>>

\* func (s *server) StopEmulator, with emulator.stop inlined.
StopEmulator(id) ==
    IF id \notin DOMAIN emulators
    THEN /\ last' = returned("StopEmulator", id, FailedPrecondition, {})
         /\ UNCHANGED <<emulators, children, readiness, deadline_elapsed, resolveRules, proxies, port_picker, bound, mu, pc>>
    ELSE IF emulator_stop_refused(emulators[id])
    THEN /\ last' = returned("StopEmulator", id, Unknown, {})
         /\ UNCHANGED <<emulators, children, readiness, deadline_elapsed, resolveRules, proxies, port_picker, bound, mu, pc>>
    ELSE /\ children' = [children EXCEPT ![emulators[id].cmd].interrupted = TRUE]
         /\ emulators' = [emulators EXCEPT ![id] = emulator_stop(@)]
         /\ last' = returned("StopEmulator", id, OK, {})
         /\ UNCHANGED <<readiness, deadline_elapsed, resolveRules, proxies, port_picker, bound, mu, pc>>

\* func (s *server) ListEmulators: returns nil, nil.
ListEmulators ==
    /\ last' = returned("ListEmulators", "", OK, {})
    /\ UNCHANGED <<emulators, children, readiness, deadline_elapsed, resolveRules, proxies, port_picker, bound, mu, pc>>

\* Whether a target pattern matches a target (modelled from the
\* specification).  The patterns used here are plain words without
\* metacharacters, and no target contains one of them as a proper part.
matches(pattern, target) == pattern = target

\* The registered emulators with a pattern that matches the target.
Matching(target) ==
    {id \in DOMAIN emulators :
        \E p \in emulators[id].spec.target_pattern : matches(p, target)}

\* func (s *server) Resolve: the matching loop is commented out; every call
\* ends in fmt.Errorf("%s not found").
Resolve(Target) ==
    /\ last' = returned("Resolve", Target, Unknown, {})
    /\ UNCHANGED <<emulators, children, readiness, deadline_elapsed, resolveRules, proxies, port_picker, bound, mu, pc>>

\* func (emu *emulator) run: cmd.Run() returns when the child is gone (or
\* could not be launched); the outcome is logged and the record is not touched.
run(pid) ==
    /\ pid \in DOMAIN children
    /\ children[pid].status = "running"
    /\ children' = [children EXCEPT ![pid].status = "exited"]
    /\ UNCHANGED <<emulators, readiness, deadline_elapsed, last, resolveRules, proxies, port_picker, bound, mu, pc>>

\* The start deadline of a STARTING emulator passes (default_emulator_start_deadline
\* of the configuration).  Nothing in the broker is waiting for it.
DeadlineElapses(id) ==
    /\ id \in DOMAIN emulators
    /\ emulators[id].state = STARTING
    /\ id \notin deadline_elapsed
    /\ deadline_elapsed' = deadline_elapsed \cup {id}
    /\ UNCHANGED <<emulators, children, readiness, last, resolveRules, proxies, port_picker, bound, mu, pc>>

----------------------------------------------------------------------------
\* A report that is refused only from ONLINE.
report_refused_online_only(emu) == emu.state = ONLINE

\* A report that is never refused.
report_refused_never(emu) == FALSE

\* rpc ReportEmulatorOnline (modelled from the specification): the test that
\* refuses the report.
report_refused(emu) == emu.state # STARTING

\* An accepted report that replaces the patterns instead of merging them.
report_online_replaces_patterns(emu, resolved_host, target_patterns) ==
    [emu EXCEPT !.spec.resolved_target = resolved_host,
                !.spec.target_pattern = target_patterns,
                !.state = "online"]

\* rpc ReportEmulatorOnline (modelled from the specification): the record
\* after an accepted report.
report_online(emu, resolved_host, target_patterns) ==
    [emu EXCEPT !.spec.resolved_target = resolved_host,
                !.spec.target_pattern = @ \cup target_patterns,
                !.state = ONLINE]

\* What an accepted report returned, with the request it carried.
returnedReport(id, resolved_host, target_patterns) ==
    [op |-> "ReportEmulatorOnline", id |-> id, code |-> OK, before |-> stateOf(id),
     result |-> {},
     request |-> [resolved_host |-> resolved_host, target_patterns |-> target_patterns]]

\* rpc ReportEmulatorOnline (modelled from the specification)
ReportEmulatorOnline(id, resolved_host, target_patterns) ==
    IF id \notin DOMAIN emulators
    THEN /\ last' = returned("ReportEmulatorOnline", id, NotFound, {})
         /\ UNCHANGED <<emulators, children, readiness, deadline_elapsed, resolveRules, proxies, port_picker, bound, mu, pc>>
    ELSE IF report_refused(emulators[id])
    THEN /\ last' = returned("ReportEmulatorOnline", id, FailedPrecondition, {})
         /\ UNCHANGED <<emulators, children, readiness, deadline_elapsed, resolveRules, proxies, port_picker, bound, mu, pc>>
    ELSE /\ emulators' = [emulators EXCEPT
                             ![id] = report_online(@, resolved_host, target_patterns)]
         /\ readiness' = [readiness EXCEPT ![id] = readiness_fire(@)]
         /\ last' = returnedReport(id, resolved_host, target_patterns)
         /\ UNCHANGED <<children, deadline_elapsed, resolveRules, proxies, port_picker, bound, mu, pc>>

----------------------------------------------------------------------------
Next ==
    \* callers create a spec under its own id, as every test does
    \/ \E spec \in EmulatorSpec : CreateEmulatorSpec(spec.id, spec)
    \/ \E id \in EmulatorIds : GetEmulatorSpec(id)
    \/ \E spec \in EmulatorSpec : UpdateEmulatorSpec(spec)
    \/ \E id \in EmulatorIds : DeleteEmulatorSpec(id)
    \/ ListEmulatorSpecs
    \/ \E id \in EmulatorIds, pipes_ok \in BOOLEAN : StartEmulator(id, pipes_ok)
    \/ \E id \in EmulatorIds : StopEmulator(id)
    \/ ListEmulators
    \/ \E t \in Targets : Resolve(t)
    \/ \E pid \in 1..MaxSpawns : run(pid)
    \/ \E id \in EmulatorIds : DeadlineElapses(id)
    \/ \E id \in EmulatorIds, h \in ResolvedHosts, p \in SUBSET ReportedPatterns :
          ReportEmulatorOnline(id, h, p)

Spec == Init /\ [][Next]_vars

----------------------------------------------------------------------------
\* The registry on its own, with the requests the handlers do not screen: an
\* id with a character outside letters, digits, '.', '_', '-', a pattern that
\* is no regular expression, and a spec_id that differs from the spec's id.
InvalidIds == {"my/mistake"}
UncompilablePatterns == {"["}
RegistryIds == EmulatorIds \cup InvalidIds

RegistrySpecs ==
    {[id |-> i, target_pattern |-> ps, start_on_demand |-> FALSE, resolved_target |-> ""] :
        i \in RegistryIds, ps \in {SpecPatterns, UncompilablePatterns}}

NextRegistry ==
    \/ \E id \in RegistryIds, spec \in RegistrySpecs : CreateEmulatorSpec(id, spec)
    \/ \E id \in RegistryIds : GetEmulatorSpec(id)
    \/ \E spec \in RegistrySpecs : UpdateEmulatorSpec(spec)
    \/ \E id \in RegistryIds : DeleteEmulatorSpec(id)
    \/ ListEmulatorSpecs

SpecRegistry == Init /\ [][NextRegistry]_vars

----------------------------------------------------------------------------
\* The table of resolve rules (server.resolveRules in the tests' API).  Its
\* handlers are declared by broker.proto and exercised by the tests, but
\* their implementation is not part of the sources; they are modelled from
\* the specification.  A rule's target_patterns is a repeated field: a list,
\* in which order is visible.
InvalidArgument == "InvalidArgument"

RuleIds == {"dummy_rule", "real_rule"}

\* Pattern lists callers submit: the two of dummy_rule in either order, the
\* one TestUpdateResolveRule merges in, and one that does not compile.
RulePatternLists ==
    {<<"pattern1", "pattern2">>, <<"pattern2", "pattern1">>,
     <<"newPattern">>, <<"[">>}

\* The scalar fields callers submit: <<resolved_host, requires_secure_connection>>.
RuleScalars == {<<"", FALSE>>, <<"t", FALSE>>, <<"t", TRUE>>}

\* message ResolveRule: the values callers submit.
ResolveRule ==
    {[rule_id |-> i, target_patterns |-> ps, resolved_host |-> sc[1],
      requires_secure_connection |-> sc[2]] :
        i \in RuleIds \cup InvalidIds, ps \in RulePatternLists, sc \in RuleScalars}

\* The elements of a list.
Range(seq) == {seq[i] : i \in 1..Len(seq)}

\* What a rule handler returned: as for the emulator handlers, with the
\* request and the rule stored under its id when the call came in.
returnedRule(op, rule, code, result) ==
    [op |-> op, id |-> rule.rule_id, code |-> code,
     before |-> IF rule.rule_id \in DOMAIN resolveRules THEN "present" ELSE "absent",
     result |-> result, request |-> rule,
     stored |-> IF rule.rule_id \in DOMAIN resolveRules
                THEN {resolveRules[rule.rule_id]} ELSE {}]

\* Create's validation: the rule_id is made of letters, digits, dots, dashes
\* and underscores, and every pattern compiles.
rule_valid(rule) ==
    /\ rule.rule_id \notin InvalidIds
    /\ Range(rule.target_patterns) \cap UncompilablePatterns = {}

rules_identical_ordered(a, b) == a = b

\* Deep equality of two rules, excluding the order of their patterns.
rules_identical(a, b) ==
    /\ a.rule_id = b.rule_id
    /\ Range(a.target_patterns) = Range(b.target_patterns)
    /\ a.resolved_host = b.resolved_host
    /\ a.requires_secure_connection = b.requires_secure_connection

\* Set union of two pattern lists: the old list, then each new pattern that
\* is not in it yet.
RECURSIVE mergePatterns(_, _)
mergePatterns(old, new) ==
    IF new = <<>> THEN old
    ELSE mergePatterns(IF Head(new) \in Range(old) THEN old ELSE Append(old, Head(new)),
                       Tail(new))

\* A create that stores whatever comes last.
CreateResolveRule_last_wins(rule) ==
    /\ resolveRules' = with(resolveRules, rule.rule_id, rule)
    /\ last' = returnedRule("CreateResolveRule", rule, OK, {})
    /\ UNCHANGED <<emulators, children, readiness, deadline_elapsed, proxies, port_picker, bound, mu, pc>>

CreateResolveRule(rule) ==
    /\ IF ~rule_valid(rule)
       THEN /\ last' = returnedRule("CreateResolveRule", rule, InvalidArgument, {})
            /\ UNCHANGED <<resolveRules, proxies, port_picker, bound, mu, pc>>
       ELSE IF rule.rule_id \in DOMAIN resolveRules
       THEN /\ last' = returnedRule("CreateResolveRule", rule,
                           IF rules_identical(resolveRules[rule.rule_id], rule)
                           THEN OK ELSE AlreadyExists, {})
            /\ UNCHANGED <<resolveRules, proxies, port_picker, bound, mu, pc>>
       ELSE /\ resolveRules' = with(resolveRules, rule.rule_id, rule)
            /\ last' = returnedRule("CreateResolveRule", rule, OK, {})
    /\ UNCHANGED <<emulators, children, readiness, deadline_elapsed, proxies, port_picker, bound, mu, pc>>

GetResolveRule_response(rule_id) ==
    IF rule_id \notin DOMAIN resolveRules
    THEN [code |-> NotFound, result |-> {}]
    ELSE [code |-> OK, result |-> {resolveRules[rule_id]}]

GetResolveRule(rule) ==
    /\ last' = returnedRule("GetResolveRule", rule,
                    GetResolveRule_response(rule.rule_id).code,
                    GetResolveRule_response(rule.rule_id).result)
    /\ UNCHANGED <<emulators, children, readiness, deadline_elapsed, resolveRules, proxies, port_picker, bound, mu, pc>>

updatedRule_replaces(stored, rule) == rule

\* The stored rule after an update: patterns merged, scalar fields overwritten.
updatedRule(stored, rule) ==
    [rule_id |-> stored.rule_id,
     target_patterns |-> mergePatterns(stored.target_patterns, rule.target_patterns),
     resolved_host |-> rule.resolved_host,
     requires_secure_connection |-> rule.requires_secure_connection]

UpdateResolveRule(rule) ==
    /\ IF rule.rule_id \notin DOMAIN resolveRules
       THEN /\ last' = returnedRule("UpdateResolveRule", rule, NotFound, {})
            /\ UNCHANGED <<resolveRules, proxies, port_picker, bound, mu, pc>>
       ELSE IF Range(rule.target_patterns) \cap UncompilablePatterns # {}
       THEN /\ last' = returnedRule("UpdateResolveRule", rule, InvalidArgument, {})
            /\ UNCHANGED <<resolveRules, proxies, port_picker, bound, mu, pc>>
       ELSE /\ resolveRules' = with(resolveRules, rule.rule_id,
                                    updatedRule(resolveRules[rule.rule_id], rule))
            /\ last' = returnedRule("UpdateResolveRule", rule, OK,
                            {updatedRule(resolveRules[rule.rule_id], rule)})
    /\ UNCHANGED <<emulators, children, readiness, deadline_elapsed, proxies, port_picker, bound, mu, pc>>

ListResolveRules ==
    /\ last' = [op |-> "ListResolveRules", id |-> "", code |-> OK, before |-> "absent",
                result |-> {resolveRules[i] : i \in DOMAIN resolveRules}]
    /\ UNCHANGED <<emulators, children, readiness, deadline_elapsed, resolveRules, proxies, port_picker, bound, mu, pc>>

\* A request that names a rule by id only (message ResolveRuleId).
ResolveRuleId(i) ==
    [rule_id |-> i, target_patterns |-> <<>>, resolved_host |-> "",
     requires_secure_connection |-> FALSE]

NextRules ==
    \/ \E rule \in ResolveRule : CreateResolveRule(rule)
    \/ \E i \in RuleIds \cup InvalidIds : GetResolveRule(ResolveRuleId(i))
    \/ \E rule \in ResolveRule : UpdateResolveRule(rule)
    \/ ListResolveRules

SpecRules == Init /\ [][NextRules]_vars

\* Callers that race to create the same ids: each call runs under the
\* registry mutex from entry to return, so the calls take effect one after
\* another, in any order.
RacingRules == {rule \in ResolveRule : rule.rule_id = "dummy_rule"}

NextCreates ==
    \/ \E id \in EmulatorIds, spec \in EmulatorSpec : CreateEmulatorSpec(id, spec)
    \/ \E rule \in RacingRules : CreateResolveRule(rule)

SpecCreates == Init /\ [][NextCreates]_vars

----------------------------------------------------------------------------
\* The command expander and the port picker it leases from, and the target
\* rewriting of the resolver.  The tests call newCommandExpander,
\* expandSpecialTokens, NewPortRangePicker and computeResolveResponse, but
\* their implementation is not part of the sources; they are modelled from
\* the specification.
\*
\* A string of a command line is a list of pieces: literal text, or one of
\* the special tokens {port:NAME}, {env:NAME}, {dir:broker}.
lit(v) == [kind |-> "lit", v |-> v]
port(name) == [kind |-> "port", v |-> name]
env(name) == [kind |-> "env", v |-> name]
dir(name) == [kind |-> "dir", v |-> name]

\* The pieces the strings of TestExpandSpecialTokens are made of.
Pieces ==
    {lit("foo:"), port("bar"), port("baz"), port(""),
     env("TEST_ENV_QUX"), env("TEST_UNDEFINED"), env(""), dir("broker")}

\* Most pieces in one command line.
MaxPieces == 3

Strings == UNION {[1..n -> Pieces] : n \in 1..MaxPieces}

\* message CommandLine, as <<path, args>>: a string cut in two.
CommandLines ==
    UNION {{<<SubSeq(s, 1, k), SubSeq(s, k + 1, Len(s))>> : k \in 1..Len(s)} :
              s \in Strings}

\* The environment of the broker process: os.Setenv("TEST_ENV_QUX", "qux").
Environ == "TEST_ENV_QUX" :> "qux"

\* The port range of the picker, [PortBegin, PortEnd), and the decimal
\* spelling of its ports.
PortBegin == 42
PortEnd == 44
Ports == PortBegin..(PortEnd - 1)
itoa == (42 :> "42") @@ (43 :> "43") @@ (44 :> "44")

\* NewPortRangePicker, over a range of which some ports are leased already.
NewPortRangePicker(leased) == [ports |-> Ports, leased |-> leased]

\* A next that hands out the lowest port of the range whether leased or not.
picker_next_ignores_leases(picker) ==
    LET p == CHOOSE x \in picker.ports : \A y \in picker.ports : x <= y
    IN  [err |-> "", port |-> p, picker |-> [picker EXCEPT !.leased = @ \cup {p}]]

\* picker.next: the lowest port of the range that is not leased, which
\* becomes leased; Exhausted when there is none.
picker_next(picker) ==
    LET free == picker.ports \ picker.leased
    IN  IF free = {}
        THEN [err |-> "Exhausted", port |-> 0, picker |-> picker]
        ELSE LET p == CHOOSE x \in free : \A y \in free : x <= y
             IN  [err |-> "", port |-> p,
                  picker |-> [picker EXCEPT !.leased = @ \cup {p}]]

\* newCommandExpander: one per start, with no name bound to a port yet.
newCommandExpander(brokerDir, portPicker) ==
    [brokerDir |-> brokerDir, portPicker |-> portPicker, ports |-> <<>>, err |-> ""]

\* An expander that does not remember the port it gave to a name.
expandPiece_forgets_name(exp, piece) ==
    IF piece.v = "" \/ piece.kind = "lit"
    THEN [exp |-> exp, out |-> piece]
    ELSE IF piece.kind = "port"
    THEN LET n == picker_next(exp.portPicker)
         IN  IF n.err # ""
             THEN [exp |-> [exp EXCEPT !.err = n.err], out |-> piece]
             ELSE [exp |-> [exp EXCEPT !.portPicker = n.picker],
                   out |-> [kind |-> "lit", v |-> itoa[n.port]]]
    ELSE IF piece.kind = "env"
    THEN [exp |-> exp,
          out |-> [kind |-> "lit",
                   v |-> IF piece.v \in DOMAIN Environ THEN Environ[piece.v] ELSE ""]]
    ELSE [exp |-> exp, out |-> [kind |-> "lit", v |-> exp.brokerDir]]

\* The replacement of one piece, and the expander after it.
expandPiece(exp, piece) ==
    IF piece.v = "" \/ piece.kind = "lit"
    THEN [exp |-> exp, out |-> piece]
    ELSE IF piece.kind = "port"
    THEN IF piece.v \in DOMAIN exp.ports
         THEN [exp |-> exp, out |-> lit(itoa[exp.ports[piece.v]])]
         ELSE LET n == picker_next(exp.portPicker)
              IN  IF n.err # ""
                  THEN [exp |-> [exp EXCEPT !.err = n.err], out |-> piece]
                  ELSE [exp |-> [exp EXCEPT !.portPicker = n.picker,
                                            !.ports = with(@, piece.v, n.port)],
                        out |-> lit(itoa[n.port])]
    ELSE IF piece.kind = "env"
    THEN [exp |-> exp,
          out |-> lit(IF piece.v \in DOMAIN Environ THEN Environ[piece.v] ELSE "")]
    ELSE [exp |-> exp, out |-> lit(exp.brokerDir)]

\* expander.expandSpecialTokens: one string rewritten in place, left to right.
RECURSIVE expandSpecialTokens(_, _)
expandSpecialTokens(exp, s) ==
    IF s = <<>> \/ exp.err # ""
    THEN [exp |-> exp, out |-> s]
    ELSE LET h == expandPiece(exp, Head(s))
             t == expandSpecialTokens(h.exp, Tail(s))
         IN  [exp |-> t.exp, out |-> <<h.out>> \o t.out]

\* The path and the arguments of one start, expanded by one expander.
RECURSIVE expandCommandLine(_, _)
expandCommandLine(exp, cmdLine) ==
    IF cmdLine = <<>> \/ exp.err # ""
    THEN [exp |-> exp, out |-> cmdLine]
    ELSE LET h == expandSpecialTokens(exp, Head(cmdLine))
             t == expandCommandLine(h.exp, Tail(cmdLine))
         IN  [exp |-> t.exp, out |-> <<h.out>> \o t.out]

\* The expansion of one start, by a fresh expander over a picker some of
\* whose ports other starts hold.
Expand ==
    /\ last.op = "call" /\ last.fn = "expandSpecialTokens"
    /\ LET r == expandCommandLine(
                    newCommandExpander("brokerDir", NewPortRangePicker(last.leased)),
                    last.request)
       IN  last' = [op |-> "expandSpecialTokens", id |-> "",
                    code |-> IF r.exp.err = "" THEN OK ELSE r.exp.err,
                    before |-> "absent", result |-> r.out,
                    request |-> last.request, leased |-> last.leased]
    /\ UNCHANGED <<emulators, children, readiness, deadline_elapsed, resolveRules, proxies, port_picker, bound, mu, pc>>

\* A target is a list of pieces too: a host, as in "foo" or "foo:80"; a URL
\* with a scheme, as in "http://foo/baz?q"; a method, as in "/Service/Method".
TargetHosts == {<<"foo">>, <<"foo", ":", "80">>}
TargetPaths == {<<>>, <<"/baz">>, <<"/baz", "?q">>}
ResolveTargets ==
    TargetHosts
    \cup {<<sch, "://">> \o h \o pq :
              sch \in {"http", "https"}, h \in TargetHosts, pq \in TargetPaths}
    \cup {<<"/Service", "/Method">>}

\* The rules a target is rewritten by: a resolved host, with or without a
\* secure connection.
RewriteRules ==
    {[rule_id |-> "dummy_rule", target_patterns |-> <<"foo">>, resolved_host |-> h,
      requires_secure_connection |-> sec] : h \in {"bar", "bar:1234"}, sec \in BOOLEAN}

\* Whether the target starts with an http or https scheme.
hasScheme(target) ==
    Len(target) >= 2 /\ target[1] \in {"http", "https"} /\ target[2] = "://"

\* The pieces of a URL after its host[:port]: path and query.
pathAndQuery(target) ==
    LET from == IF Len(target) >= 5 /\ target[4] = ":" THEN 6 ELSE 4
    IN  SubSeq(target, from, Len(target))

\* A rewriting that keeps the scheme the target came with.
computeResolveResponse_keeps_scheme(target, rule) ==
    [target |-> IF Len(target) >= 2 /\ target[2] = "://"
                THEN <<target[1], "://", rule.resolved_host>>
                         \o SubSeq(target,
                                    IF Len(target) >= 5 /\ target[4] = ":" THEN 6 ELSE 4,
                                    Len(target))
                ELSE <<rule.resolved_host>>,
     requires_secure_connection |-> rule.requires_secure_connection]

\* computeResolveResponse: the response for a target and the rule it matched.
computeResolveResponse(target, rule) ==
    [target |-> IF hasScheme(target)
                THEN <<IF rule.requires_secure_connection THEN "https" ELSE "http",
                       "://", rule.resolved_host>> \o pathAndQuery(target)
                ELSE <<rule.resolved_host>>,
     requires_secure_connection |-> rule.requires_secure_connection]

Rewrite ==
    /\ last.op = "call" /\ last.fn = "computeResolveResponse"
    /\ last' = [op |-> "computeResolveResponse", id |-> "", code |-> OK,
                before |-> "absent",
                result |-> computeResolveResponse(last.request, last.rule),
                request |-> last.request, rule |-> last.rule]
    /\ UNCHANGED <<emulators, children, readiness, deadline_elapsed, resolveRules, proxies, port_picker, bound, mu, pc>>

\* The two functions on their own: a call with its arguments, then its result.
InitFunctions ==
    /\ emulators = <<>>
    /\ children = <<>>
    /\ readiness = <<>>
    /\ deadline_elapsed = {}
    /\ resolveRules = <<>>
    /\ proxies = {}
    /\ mu = "free"
    /\ pc = [w \in Workers |-> idle]
    /\ port_picker = [ports |-> {}, leased |-> {}]
    /\ bound = {}
    /\ \/ \E cmdLine \in CommandLines, leased \in SUBSET Ports :
             last = [op |-> "call", fn |-> "expandSpecialTokens",
                     request |-> cmdLine, leased |-> leased]
       \/ \E target \in ResolveTargets, rule \in RewriteRules :
             last = [op |-> "call", fn |-> "computeResolveResponse",
                     request |-> target, rule |-> rule]

NextFunctions == Expand \/ Rewrite

SpecFunctions == InitFunctions /\ [][NextFunctions]_vars

----------------------------------------------------------------------------
\* The proxies.  CreateProxy, GetProxy and ListProxies are declared by
\* broker.proto, but their implementation is not part of the sources; they
\* are modelled from the specification.  A proxy is [emulator_id, port].
\*
\* message Proxy: the values callers submit; port 0 asks the broker to pick.
Proxy == {[emulator_id |-> i, port |-> n] : i \in EmulatorIds, n \in {0} \cup Ports}

\* What a proxy handler returned: as for the emulator handlers, with the
\* request and the proxies the emulator had when the call came in.
returnedProxy(op, proxy, code, result) ==
    [op |-> op, id |-> proxy.emulator_id, code |-> code,
     before |-> stateOf(proxy.emulator_id), result |-> result, request |-> proxy,
     stored |-> {x \in proxies : x.emulator_id = proxy.emulator_id}]

proxy_exists_never(emulator_id) == FALSE

\* Whether the emulator has a proxy already.
proxy_exists(emulator_id) == \E x \in proxies : x.emulator_id = emulator_id

\* The ports the proxies listen on: the leases of the picker.
proxyPorts == {x.port : x \in proxies}

\* rpc CreateProxy.  bind_ok tells whether a requested port could be bound,
\* which a port taken by another program cannot.
CreateProxy(proxy, bind_ok) ==
    /\ IF proxy.emulator_id \notin DOMAIN emulators
       THEN /\ last' = returnedProxy("CreateProxy", proxy, FailedPrecondition, {})
            /\ UNCHANGED proxies
       ELSE IF proxy_exists(proxy.emulator_id)
       THEN /\ last' = returnedProxy("CreateProxy", proxy, AlreadyExists, {})
            /\ UNCHANGED proxies
       ELSE IF proxy.port = 0
       THEN LET n == picker_next(NewPortRangePicker(proxyPorts))
            IN  IF n.err # ""
                THEN /\ last' = returnedProxy("CreateProxy", proxy, n.err, {})
                     /\ UNCHANGED proxies
                ELSE /\ proxies' = proxies \cup {[proxy EXCEPT !.port = n.port]}
                     /\ last' = returnedProxy("CreateProxy", proxy, OK,
                                     {[proxy EXCEPT !.port = n.port]})
       ELSE IF proxy.port \in proxyPorts \/ ~bind_ok
       THEN /\ last' = returnedProxy("CreateProxy", proxy, AlreadyExists, {})
            /\ UNCHANGED proxies
       ELSE /\ proxies' = proxies \cup {proxy}
            /\ last' = returnedProxy("CreateProxy", proxy, OK, {proxy})
    /\ UNCHANGED <<emulators, children, readiness, deadline_elapsed, resolveRules, port_picker, bound, mu, pc>>

\* rpc GetProxy
GetProxy(emulator_id) ==
    /\ last' = returnedProxy("GetProxy", [emulator_id |-> emulator_id, port |-> 0],
                    IF proxy_exists(emulator_id) THEN OK ELSE NotFound,
                    {x \in proxies : x.emulator_id = emulator_id})
    /\ UNCHANGED <<emulators, children, readiness, deadline_elapsed, resolveRules, proxies, port_picker, bound, mu, pc>>

\* rpc ListProxies
ListProxies ==
    /\ last' = returned("ListProxies", "", OK, proxies)
    /\ UNCHANGED <<emulators, children, readiness, deadline_elapsed, resolveRules, proxies, port_picker, bound, mu, pc>>

NextProxies ==
    \/ \E spec \in EmulatorSpec : CreateEmulatorSpec(spec.id, spec)
    \/ \E id \in EmulatorIds : DeleteEmulatorSpec(id)
    \/ \E proxy \in Proxy, bind_ok \in BOOLEAN : CreateProxy(proxy, bind_ok)
    \/ \E id \in EmulatorIds : GetProxy(id)
    \/ ListProxies

SpecProxies == Init /\ [][NextProxies]_vars

----------------------------------------------------------------------------
\* The registry mutex made visible.  StartEmulator is taken in the steps of
\* its code: s.mu.Lock(), the body with emulator.start, and the deferred
\* s.mu.Unlock() on return.  The child is launched and waited for by
\* go emu.run(), a goroutine that never takes the mutex.  The other handlers
\* lock, work and unlock without a step of anyone else in between; each is
\* one step that needs the mutex free.

\* s.mu.Lock() at the head of StartEmulator.
StartEmulator_Lock(w, id) ==
    /\ pc[w] = idle
    /\ mu = "free"
    /\ Len(children) < MaxSpawns
    /\ mu' = w
    /\ pc' = [pc EXCEPT ![w] = [op |-> "StartEmulator", id |-> id, at |-> "locked"]]
    /\ UNCHANGED <<emulators, children, readiness, deadline_elapsed, last, resolveRules, proxies, port_picker, bound>>

\* The body of StartEmulator, run by the worker that holds the mutex.
StartEmulator_start(w, pipes_ok) ==
    /\ mu = w
    /\ pc[w].at = "locked"
    /\ StartEmulator_locked(pc[w].id, pipes_ok)
    /\ pc' = [pc EXCEPT ![w].at = "returning"]
    /\ UNCHANGED mu

\* A handler that returns, and unlocks, only when the start it began is over.
StartEmulator_Unlock_when_started(w) ==
    /\ mu = w
    /\ pc[w].at = "returning"
    /\ stateOf(pc[w].id) # "starting"
    /\ mu' = "free"
    /\ pc' = [pc EXCEPT ![w] = [op |-> "idle", id |-> "", at |-> "idle"]]
    /\ UNCHANGED <<emulators, children, readiness, deadline_elapsed, last, resolveRules, proxies, port_picker, bound>>

\* defer s.mu.Unlock(): runs as StartEmulator returns.
StartEmulator_Unlock(w) ==
    /\ mu = w
    /\ pc[w].at = "returning"
    /\ mu' = "free"
    /\ pc' = [pc EXCEPT ![w] = idle]
    /\ UNCHANGED <<emulators, children, readiness, deadline_elapsed, last, resolveRules, proxies, port_picker, bound>>

\* The next step of a worker inside StartEmulator.
StartEmulator_step(w) ==
    \/ \E pipes_ok \in BOOLEAN : StartEmulator_start(w, pipes_ok)
    \/ StartEmulator_Unlock(w)

\* The handlers that need the mutex to run.
Locked_CreateEmulatorSpec(spec) == mu = "free" /\ CreateEmulatorSpec(spec.id, spec)
Locked_GetEmulatorSpec(id) == mu = "free" /\ GetEmulatorSpec(id)
Locked_StopEmulator(id) == mu = "free" /\ StopEmulator(id)
Locked_ReportEmulatorOnline(id, resolved_host) ==
    mu = "free" /\ ReportEmulatorOnline(id, resolved_host, {})

NextMutex ==
    \/ \E spec \in EmulatorSpec : Locked_CreateEmulatorSpec(spec)
    \/ \E id \in EmulatorIds : Locked_GetEmulatorSpec(id)
    \/ \E id \in EmulatorIds : Locked_StopEmulator(id)
    \/ \E id \in EmulatorIds, h \in ResolvedHosts : Locked_ReportEmulatorOnline(id, h)
    \/ \E w \in Workers, id \in EmulatorIds : StartEmulator_Lock(w, id)
    \/ \E w \in Workers, pipes_ok \in BOOLEAN : StartEmulator_start(w, pipes_ok)
    \/ \E w \in Workers : StartEmulator_Unlock(w)
    \/ \E pid \in 1..MaxSpawns : run(pid)

SpecMutex == Init /\ [][NextMutex]_vars

\* The scheduler lets every goroutine run: a worker inside StartEmulator that
\* can take its next step does take it.
SpecMutexFair == SpecMutex /\ \A w \in Workers : WF_vars(StartEmulator_step(w))

----------------------------------------------------------------------------
\* The p picker on its own (modelled from the specification): a broker
\* configured with p ranges, callers that take ports and give them back,
\* and other programs that bind and close ports of the ranges.

\* The configured lists of [begin, end) ranges: the one of the tests, and two
\* adjacent ranges.
PortRangeLists ==
    {<<[begin |-> PortBegin, end |-> PortEnd]>>,
     <<[begin |-> PortBegin, end |-> PortBegin + 1],
       [begin |-> PortBegin + 1, end |-> PortEnd + 1]>>}

\* The ports of a list of ranges.
picker_ports(ranges) == UNION {r.begin..(r.end - 1) : r \in Range(ranges)}

\* The ports of any of the configurations.
PickerPorts == UNION {picker_ports(ranges) : ranges \in PortRangeLists}

\* picker.next with the probe: a p that another program has bound does
\* not bind and is passed over; it is not leased either.
picker_probe(picker, unbindable) ==
    LET n == picker_next([picker EXCEPT !.leased = @ \cup unbindable])
    IN  IF n.err # ""
        THEN [err |-> n.err, port |-> 0, picker |-> picker]
        ELSE [err |-> "", port |-> n.port,
              picker |-> [picker EXCEPT !.leased = @ \cup {n.port}]]

\* picker.release: the p returns to the pool.
picker_release(picker, p) == [picker EXCEPT !.leased = @ \ {p}]

\* What a call of the picker returned; held are the ports handed out by next
\* and not given back since.
returnedPort(op, p, err, held) == [op |-> op, port |-> p, err |-> err, held |-> held]

InitPicker ==
    /\ emulators = <<>>
    /\ children = <<>>
    /\ readiness = <<>>
    /\ deadline_elapsed = {}
    /\ resolveRules = <<>>
    /\ proxies = {}
    /\ mu = "free"
    /\ pc = [w \in Workers |-> idle]
    /\ \E ranges \in PortRangeLists :
          port_picker = [ports |-> picker_ports(ranges), leased |-> {}]
    /\ bound = {}
    /\ last = returnedPort("NewPortRangePicker", 0, "", {})

\* A caller asks for a port.
PickerNext ==
    LET n == picker_probe(port_picker, bound)
    IN  /\ port_picker' = n.picker
        /\ last' = returnedPort("next", n.port, n.err,
                                IF n.err = "" THEN last.held \cup {n.port} ELSE last.held)
        /\ UNCHANGED <<emulators, children, readiness, deadline_elapsed, resolveRules,
                       proxies, mu, pc, bound>>

\* A caller gives back a port it holds.
PickerRelease(p) ==
    /\ p \in last.held
    /\ port_picker' = picker_release(port_picker, p)
    /\ last' = returnedPort("release", p, "", last.held \ {p})
    /\ UNCHANGED <<emulators, children, readiness, deadline_elapsed, resolveRules,
                   proxies, mu, pc, bound>>

\* Another program binds a port that no one has bound.
OtherProgramBinds(p) ==
    /\ p \in port_picker.ports \ bound
    /\ bound' = bound \cup {p}
    /\ last' = returnedPort("bind", p, "", last.held)
    /\ UNCHANGED <<emulators, children, readiness, deadline_elapsed, resolveRules,
                   proxies, mu, pc, port_picker>>

\* Another program closes a port it had bound.
OtherProgramCloses(p) ==
    /\ p \in bound
    /\ bound' = bound \ {p}
    /\ last' = returnedPort("close", p, "", last.held)
    /\ UNCHANGED <<emulators, children, readiness, deadline_elapsed, resolveRules,
                   proxies, mu, pc, port_picker>>

NextPicker ==
    \/ PickerNext
    \/ \E p \in PickerPorts : PickerRelease(p)
    \/ \E p \in PickerPorts : OtherProgramBinds(p)
    \/ \E p \in PickerPorts : OtherProgramCloses(p)

SpecPicker == InitPicker /\ [][NextPicker]_vars

----------------------------------------------------------------------------
\* Restarts, with the reports sent by the children themselves.  A child finds
\* the broker through TESTENV_BROKER_ADDRESS and reports the address it serves
\* at under the id of the emulator it was launched for; the request carries
\* the emulator id and nothing that tells one start of it from another.

\* The address child pid serves at.
childHost(pid) == "localhost:" \o ToString(pid)

\* A running child reports online.
ChildReportsOnline(pid) ==
    /\ pid \in DOMAIN children
    /\ children[pid].status = "running"
    /\ ReportEmulatorOnline(children[pid].owner, childHost(pid), {})

NextRestart ==
    \/ \E spec \in EmulatorSpec : CreateEmulatorSpec(spec.id, spec)
    \/ \E id \in EmulatorIds : DeleteEmulatorSpec(id)
    \/ \E id \in EmulatorIds, pipes_ok \in BOOLEAN : StartEmulator(id, pipes_ok)
    \/ \E id \in EmulatorIds : StopEmulator(id)
    \/ \E pid \in 1..MaxSpawns : run(pid)
    \/ \E id \in EmulatorIds : DeadlineElapses(id)
    \/ \E pid \in 1..MaxSpawns : ChildReportsOnline(pid)

SpecRestart == Init /\ [][NextRestart]_vars

----------------------------------------------------------------------------
\* The start coordinator with the ports it leases (modelled from the
\* specification; emulator.start of the sources hands the command line to
\* exec.Command as it is and leases nothing).  A start expands the command of
\* the emulator, which leases a port for every {port:NAME}, and keeps the
\* mapping NAME -> port on the record; every way out of STARTING or ONLINE
\* gives the ports of the mapping back.

\* The start commands, as <<path, args>>: one with two port names, one with a
\* single name, as in "--port={port:real}".
StartCommands ==
    ("dummy" :> <<(<<lit("foo:"), port("bar")>>), (<<port("baz"), port("bar")>>)>>)
    @@ ("real" :> <<(<<lit("foo:")>>), (<<lit("--port="), port("real")>>)>>)

\* The ports of a mapping NAME -> port.
mappedPorts(mapping) == {mapping[name] : name \in DOMAIN mapping}

\* A picker that keeps the ports of a mapping leased.
release_ports_never(picker, mapping) == picker

\* picker.release for every port of a mapping.
release_ports(picker, mapping) == [picker EXCEPT !.leased = @ \ mappedPorts(mapping)]

\* The record of an emulator that is OFFLINE: no child, no ports.
offline(emu) == [emu EXCEPT !.cmd = NoCmd, !.state = OFFLINE, !.ports = <<>>]

InitPorts ==
    /\ emulators = [id \in EmulatorIds |->
                       [spec |-> [id |-> id, target_pattern |-> SpecPatterns,
                                  start_on_demand |-> FALSE, resolved_target |-> ""],
                        cmd |-> NoCmd, state |-> OFFLINE, ports |-> <<>>]]
    /\ children = <<>>
    /\ readiness = <<>>
    /\ deadline_elapsed = {}
    /\ last = [op |-> "New", id |-> "", code |-> OK, before |-> "absent", result |-> {}]
    /\ resolveRules = <<>>
    /\ proxies = {}
    /\ mu = "free"
    /\ pc = [w \in Workers |-> idle]
    /\ \E ranges \in PortRangeLists :
          port_picker = [ports |-> picker_ports(ranges), leased |-> {}]
    /\ bound = {}

\* Start, steps 1 and 2: OFFLINE -> STARTING, the command expanded and the
\* child spawned.  When a port cannot be leased or the spawn fails, the ports
\* leased for this start are given back and the emulator is OFFLINE again.
Start(id, spawn_ok) ==
    /\ emulators[id].state = OFFLINE
    /\ Len(children) < MaxSpawns
    /\ LET r == expandCommandLine(newCommandExpander("brokerDir", port_picker),
                                  StartCommands[id])
       IN  IF r.exp.err # "" \/ ~spawn_ok
           THEN /\ port_picker' = release_ports(r.exp.portPicker, r.exp.ports)
                /\ last' = returned("StartEmulator", id, "Aborted", {})
                /\ UNCHANGED <<emulators, children>>
           ELSE /\ port_picker' = r.exp.portPicker
                /\ children' = Append(children, newChild(id))
                /\ emulators' = [emulators EXCEPT ![id].state = STARTING,
                                                   ![id].cmd = Len(children) + 1,
                                                   ![id].ports = r.exp.ports]
                /\ last' = returned("StartEmulator", id, OK, {})
    /\ UNCHANGED <<readiness, deadline_elapsed, resolveRules, proxies, mu, pc, bound>>

\* STARTING -> ONLINE on the report of the emulator.
Reported(id, resolved_host) ==
    /\ emulators[id].state = STARTING
    /\ emulators' = [emulators EXCEPT ![id].state = ONLINE,
                                       ![id].spec.resolved_target = resolved_host]
    /\ last' = returned("ReportEmulatorOnline", id, OK, {})
    /\ UNCHANGED <<children, readiness, deadline_elapsed, resolveRules, proxies,
                   mu, pc, port_picker, bound>>

\* STARTING -> OFFLINE when the deadline of the start elapses: the child is
\* interrupted, the ports are released.
DeadlineExpires(id) ==
    /\ emulators[id].state = STARTING
    /\ children' = [children EXCEPT ![emulators[id].cmd].interrupted = TRUE]
    /\ port_picker' = release_ports(port_picker, emulators[id].ports)
    /\ emulators' = [emulators EXCEPT ![id] = offline(@)]
    /\ last' = returned("StartEmulator", id, "DeadlineExceeded", {})
    /\ UNCHANGED <<readiness, deadline_elapsed, resolveRules, proxies, mu, pc, bound>>

\* Stop: a no-op when OFFLINE; otherwise the child is interrupted, the ports
\* are released, the resolved host is cleared and the emulator is OFFLINE.
Stop(id) ==
    /\ IF emulators[id].state = OFFLINE
       THEN UNCHANGED <<emulators, children, port_picker>>
       ELSE /\ children' = [children EXCEPT ![emulators[id].cmd].interrupted = TRUE]
            /\ port_picker' = release_ports(port_picker, emulators[id].ports)
            /\ emulators' = [emulators EXCEPT
                                 ![id] = offline([@ EXCEPT !.spec.resolved_target = ""])]
    /\ last' = returned("StopEmulator", id, OK, {})
    /\ UNCHANGED <<readiness, deadline_elapsed, resolveRules, proxies, mu, pc, bound>>

\* The child-exit watcher: a child is gone.  When it is the child of the
\* current start of its emulator, that emulator goes OFFLINE and its ports
\* are released.
ChildExits(pid) ==
    /\ pid \in DOMAIN children
    /\ children[pid].status = "running"
    /\ children' = [children EXCEPT ![pid].status = "exited"]
    /\ LET id == children[pid].owner
       IN  IF emulators[id].cmd = pid
           THEN /\ port_picker' = release_ports(port_picker, emulators[id].ports)
                /\ emulators' = [emulators EXCEPT
                                     ![id] = offline([@ EXCEPT !.spec.resolved_target = ""])]
           ELSE UNCHANGED <<emulators, port_picker>>
    /\ UNCHANGED <<readiness, deadline_elapsed, last, resolveRules, proxies, mu, pc, bound>>

NextPorts ==
    \/ \E id \in EmulatorIds, spawn_ok \in BOOLEAN : Start(id, spawn_ok)
    \/ \E id \in EmulatorIds, h \in ResolvedHosts : Reported(id, h)
    \/ \E id \in EmulatorIds : DeadlineExpires(id)
    \/ \E id \in EmulatorIds : Stop(id)
    \/ \E pid \in 1..MaxSpawns : ChildExits(pid)

SpecPorts == InitPorts /\ [][NextPorts]_vars

----------------------------------------------------------------------------
C3_ReportOnlineFromStarting ==
    (last.op = "ReportEmulatorOnline" /\ last.code = OK) =>
        /\ last.before = STARTING
        /\ last.id \in DOMAIN emulators
        /\ emulators[last.id].state = ONLINE

\* An accepted report.
C3_Witness ==
    /\ last.op = "ReportEmulatorOnline"
    /\ last.code = OK
    /\ last.before = STARTING
    /\ emulators[last.id].state = ONLINE

\* C4: ReportEmulatorOnline returns NotFound for an unregistered id and
\* FailedPrecondition for an emulator that is OFFLINE or ONLINE, and a report
\* that returned an error changed no emulator (state, resolved host and
\* target patterns included).
C4_ReportErrors ==
    /\ [](last.op = "ReportEmulatorOnline" =>
            /\ (last.before = "absent") => (last.code = NotFound)
            /\ (last.before \in {OFFLINE, ONLINE}) => (last.code = FailedPrecondition))
    /\ [][(last'.op = "ReportEmulatorOnline" /\ last'.code # OK) =>
            emulators' = emulators]_vars

\* A report refused on an ONLINE emulator.
C4_Witness ==
    /\ last.op = "ReportEmulatorOnline"
    /\ last.code = FailedPrecondition
    /\ last.before = ONLINE
    /\ emulators[last.id].state = ONLINE

\* C5: StartEmulator on an OFFLINE emulator returns success only after the
\* emulator's report was accepted: when it has returned success the emulator
\* is ONLINE.
C5_StartReturnsOnline ==
    (last.op = "StartEmulator" /\ last.before = OFFLINE /\ last.code = OK) =>
        emulators[last.id].state = ONLINE

\* C6: StartEmulator on an emulator that is already STARTING does not fail;
\* it returns the outcome of the start in progress, which for the first
\* caller was success.
C6_StartWhileStartingJoins ==
    (last.op = "StartEmulator" /\ last.before = STARTING) => last.code = OK

\* C7: StartEmulator on an ONLINE emulator returns AlreadyExists and leaves
\* the emulator ONLINE.
C7_StartWhenOnline ==
    (last.op = "StartEmulator" /\ last.before = ONLINE) =>
        /\ last.code = AlreadyExists
        /\ emulators[last.id].state = ONLINE

\* C8: once the start deadline of an emulator has passed with no report
\* accepted, the emulator is OFFLINE, its child was interrupted and its
\* StartEmulator returned DeadlineExceeded.
C8_DeadlineRevertsStart ==
    \A id \in deadline_elapsed :
        (emulators[id].state # ONLINE) =>
            /\ emulators[id].state = OFFLINE
            /\ children[emulators[id].cmd].interrupted
            /\ (last.op = "StartEmulator" /\ last.id = id) =>
                   last.code = "DeadlineExceeded"

\* C9: StopEmulator on an OFFLINE emulator returns success and leaves it
\* OFFLINE.
C9_StopWhenOffline ==
    (last.op = "StopEmulator" /\ last.before = OFFLINE) =>
        /\ last.code = OK
        /\ emulators[last.id].state = OFFLINE

\* C10: StopEmulator on a STARTING or ONLINE emulator returns success, has
\* interrupted the child, and leaves the emulator OFFLINE with an empty
\* resolved host.
C10_StopWhenRunning ==
    (last.op = "StopEmulator" /\ last.before \in {STARTING, ONLINE}) =>
        /\ last.code = OK
        /\ emulators[last.id].state = OFFLINE
        /\ emulators[last.id].spec.resolved_target = ""
        /\ children[emulators[last.id].cmd].interrupted

\* C11: StartEmulator, StopEmulator and GetEmulator called with an id that is
\* not registered return NotFound.
C11_UnknownIdIsNotFound ==
    (last.op \in {"StartEmulator", "StopEmulator", "GetEmulatorSpec"}
        /\ last.before = "absent") => last.code = NotFound

\* C12: creating an emulator under an id that is already registered returns
\* AlreadyExists and no emulator value, and leaves every stored emulator (spec
\* and state) as it was.
C12_CreateExisting ==
    /\ []((last.op = "CreateEmulatorSpec" /\ last.before # "absent") =>
            (last.code = AlreadyExists /\ last.result = {}))
    /\ [][(last'.op = "CreateEmulatorSpec" /\ last'.code = AlreadyExists) =>
            emulators' = emulators]_vars

\* A create refused on an emulator that is ONLINE, and still is.
C12_Witness ==
    /\ last.op = "CreateEmulatorSpec"
    /\ last.code = AlreadyExists
    /\ last.before = ONLINE
    /\ emulators[last.id].state = ONLINE

\* C13: a create with an invalid id or a pattern that does not compile
\* returns InvalidArgument, so no create with such an id or pattern succeeds.
C13_InvalidCreateRejected ==
    /\ (last.op = "CreateEmulatorSpec" /\ last.id \in InvalidIds) =>
           last.code = "InvalidArgument"
    /\ (last.op = "CreateEmulatorSpec" /\ last.code = OK) =>
           \A x \in last.result :
               x.id \notin InvalidIds /\ x.target_pattern \cap UncompilablePatterns = {}

C15_ListReturnsRegistry ==
    /\ (last.op = "ListEmulatorSpecs") =>
           last.result = {emulators[id].spec : id \in DOMAIN emulators}
    /\ (last.op = "ListEmulators") =>
           Cardinality(last.result) = Cardinality(DOMAIN emulators)

\* C18: Resolve of a target that no pattern matches returns success with the
\* target it was given.
C18_ResolveNoMatchEchoes ==
    (last.op = "Resolve" /\ Matching(last.id) = {}) =>
        (last.code = OK /\ last.result = {last.id})

\* C19: Resolve of a target matching an OFFLINE emulator with start_on_demand
\* starts the emulator within the call: when the call has returned and such
\* an emulator is still OFFLINE, the start failed and the call returned
\* Unavailable.
C19_ResolveStartsOnDemand ==
    (last.op = "Resolve"
        /\ \E id \in Matching(last.id) :
               emulators[id].spec.start_on_demand /\ emulators[id].state = OFFLINE) =>
        last.code = "Unavailable"

\* C20: Resolve of a target matching only OFFLINE emulators without
\* start_on_demand returns Unavailable and leaves them OFFLINE.
C20_ResolveNotOnDemand ==
    (last.op = "Resolve"
        /\ Matching(last.id) # {}
        /\ \A id \in Matching(last.id) :
               ~emulators[id].spec.start_on_demand /\ emulators[id].state = OFFLINE) =>
        last.code = "Unavailable"

C17_UpdateRuleMerges ==
    /\ (last.op = "UpdateResolveRule" /\ last.code = OK) =>
          /\ Cardinality(last.result) = 1
          /\ GetResolveRule_response(last.id) = [code |-> OK, result |-> last.result]
          /\ \A s \in last.stored :
                (Range(s.target_patterns) \cup Range(last.request.target_patterns))
                    \subseteq Range(resolveRules[last.id].target_patterns)
    /\ (last.op = "UpdateResolveRule" /\ last.before = "absent") =>
          (last.code = NotFound /\ last.id \notin DOMAIN resolveRules)

\* An update that added a new pattern to a rule that had two.
C17_Witness ==
    /\ last.op = "UpdateResolveRule" /\ last.code = OK
    /\ last.request.target_patterns = <<"newPattern">>
    /\ \E s \in last.stored : Range(s.target_patterns) = {"pattern1", "pattern2"}
    /\ Range(resolveRules[last.id].target_patterns) = {"pattern1", "pattern2", "newPattern"}

\* C21: Resolve of a target matching a STARTING emulator does not return
\* before that start's readiness is fired: a Resolve that has returned while
\* every matching emulator is STARTING with its readiness still armed gave up
\* waiting and returned Unavailable.
C21_ResolveWaitsForStarting ==
    (last.op = "Resolve"
        /\ Matching(last.id) # {}
        /\ \A id \in Matching(last.id) :
               emulators[id].state = STARTING /\ readiness[id].signal = "armed") =>
        last.code = "Unavailable"

\* C22: a Resolve for a target matching an on-demand emulator that does not
\* succeed, the start deadline having passed or the start having failed,
\* returns Unavailable and no other code.
C22_ResolveStartFailureIsUnavailable ==
    (last.op = "Resolve" /\ last.code # OK
        /\ \E id \in Matching(last.id) : emulators[id].spec.start_on_demand) =>
        last.code = "Unavailable"

\* C25: a report that arrives after the start deadline of its emulator has
\* passed loses the race: it returns FailedPrecondition and the emulator is
\* not ONLINE.
C25_ReportAfterDeadlineLoses ==
    (last.op = "ReportEmulatorOnline" /\ last.id \in deadline_elapsed) =>
        /\ last.code = FailedPrecondition
        /\ emulators[last.id].state # ONLINE

\* C28: removing an emulator stops it first: every child that is running and
\* was not interrupted belongs to a registered emulator that holds it.
C28_DeleteStopsChild ==
    \A pid \in DOMAIN children :
        (children[pid].status = "running" /\ ~children[pid].interrupted) =>
            /\ children[pid].owner \in DOMAIN emulators
            /\ emulators[children[pid].owner].cmd = pid

\* C29: child exit is observed: once run has returned for the child of an
\* emulator, the emulator is no longer STARTING or ONLINE.
C29_ChildExitObserved ==
    \A id \in DOMAIN emulators :
        (emulators[id].state \in {STARTING, ONLINE}) =>
            children[emulators[id].cmd].status = "running"

\* C23: target rewriting on a matched rule: a host or host:port becomes the
\* rule's resolved_host; a URL with an http or https scheme keeps its path
\* and query, gets the resolved_host as its host and has scheme https iff the
\* rule requires a secure connection, whatever scheme it came with; the
\* response carries the rule's requires_secure_connection.
C23_TargetRewriting ==
    (last.op = "computeResolveResponse") =>
        /\ last.result.requires_secure_connection = last.rule.requires_secure_connection
        /\ (last.request \in TargetHosts) =>
               last.result.target = <<last.rule.resolved_host>>
        /\ \A sch \in {"http", "https"}, h \in TargetHosts, pq \in TargetPaths :
               (last.request = <<sch, "://">> \o h \o pq) =>
                   last.result.target =
                       <<IF last.rule.requires_secure_connection THEN "https" ELSE "http",
                         "://", last.rule.resolved_host>> \o pq

\* An https URL with a port, a path and a query, rewritten by a rule that
\* requires no secure connection.
C23_Witness ==
    /\ last.op = "computeResolveResponse"
    /\ last.request = <<"https", "://", "foo", ":", "80", "/baz", "?q">>
    /\ ~last.rule.requires_secure_connection
    /\ last.result.target = <<"http", "://", last.rule.resolved_host, "/baz", "?q">>

\* C24: in the expansion of one start every {port:NAME} with a NAME is
\* replaced by a port of the range that no other start holds, two of them by
\* the same port iff they carry the same NAME; {port:} and {env:} without a
\* NAME are left as they are; {env:NAME} of an unset variable becomes the
\* empty string.
C24_ExpandPorts ==
    (last.op = "expandSpecialTokens" /\ last.code = OK) =>
        LET in == last.request[1] \o last.request[2]
            out == last.result[1] \o last.result[2]
            named == {i \in 1..Len(in) : in[i].kind = "port" /\ in[i].v # ""}
        IN  /\ Len(out) = Len(in)
            /\ \A i \in named :
                   /\ out[i].kind = "lit"
                   /\ \E p \in Ports \ last.leased : out[i].v = itoa[p]
            /\ \A i, j \in named : (in[i].v = in[j].v) <=> (out[i].v = out[j].v)
            /\ \A i \in 1..Len(in) :
                   /\ (in[i].kind \in {"port", "env"} /\ in[i].v = "") => out[i] = in[i]
                   /\ (in[i].kind = "env" /\ in[i].v # "" /\ in[i].v \notin DOMAIN Environ) =>
                          out[i] = [kind |-> "lit", v |-> ""]

\* A start whose command names one port twice and another port once.
C24_Witness ==
    /\ last.op = "expandSpecialTokens" /\ last.code = OK
    /\ last.request = <<<<port("bar")>>, <<port("bar"), port("baz")>>>>
    /\ last.result = <<<<lit("42")>>, <<lit("42"), lit("43")>>>>

\* C26: of the calls that create the same id on a registry without it,
\* exactly one succeeds, the one that finds the id absent, and its value is
\* the one stored from then on; every other call, a rule that differs from
\* the stored one included, returns AlreadyExists.
C26_OneCreateWins ==
    /\ [](last.op = "CreateEmulatorSpec" =>
            IF last.before = "absent"
            THEN last.code = OK /\ last.result = {emulators[last.id].spec}
            ELSE last.code = AlreadyExists)
    /\ []((last.op = "CreateResolveRule" /\ rule_valid(last.request)) =>
            IF last.before = "absent"
            THEN last.code = OK /\ resolveRules[last.id] = last.request
            ELSE \A s \in last.stored :
                    (\/ Range(s.target_patterns) # Range(last.request.target_patterns)
                     \/ s.resolved_host # last.request.resolved_host
                     \/ s.requires_secure_connection
                            # last.request.requires_secure_connection) =>
                        last.code = AlreadyExists)
    /\ [][/\ \A id \in DOMAIN emulators :
                id \in DOMAIN emulators' /\ emulators'[id] = emulators[id]
           /\ \A rid \in DOMAIN resolveRules :
                rid \in DOMAIN resolveRules' /\ resolveRules'[rid] = resolveRules[rid]]_vars

\* A rule create that lost to an earlier one with another resolved host,
\* next to an emulator create that lost too.
C26_Witness ==
    /\ last.op = "CreateResolveRule" /\ last.code = AlreadyExists
    /\ \E s \in last.stored :
          s.resolved_host # last.request.resolved_host /\ resolveRules[last.id] = s
    /\ DOMAIN emulators = EmulatorIds

\* C27: CreateProxy for an unregistered emulator id returns
\* FailedPrecondition, for an emulator that has a proxy AlreadyExists, and
\* neither touches the proxies; so there is at most one proxy per emulator
\* id, every proxy has a port above 0, and a proxy once created stays.
C27_OneProxyPerEmulator ==
    /\ []((last.op = "CreateProxy" /\ last.before = "absent") =>
            last.code = FailedPrecondition)
    /\ []((last.op = "CreateProxy" /\ last.before # "absent" /\ last.stored # {}) =>
            last.code = AlreadyExists)
    /\ [][(last'.op = "CreateProxy" /\ last'.code \in {FailedPrecondition, AlreadyExists}) =>
            proxies' = proxies]_vars
    /\ [](\A x, y \in proxies : (x.emulator_id = y.emulator_id) => x = y)
    /\ [](\A x \in proxies : x.port > 0)
    /\ [][proxies \subseteq proxies']_vars

\* A second CreateProxy for an emulator, asking for any port, refused; the
\* first proxy is still there.
C27_Witness ==
    /\ last.op = "CreateProxy" /\ last.code = AlreadyExists
    /\ last.before # "absent" /\ last.request.port = 0
    /\ last.stored # {} /\ last.stored \subseteq proxies

\* C30: the registry mutex is never held across the launch of a child or a
\* wait for a start to complete: the worker that holds it can always take
\* its next step and release it by itself, whatever the emulators and their
\* children do, so a call that needs the mutex while a start is pending is
\* held up for the holder's own steps only.
C30_MutexNeverHeldAcrossWait ==
    /\ mu # "free" => ENABLED StartEmulator_step(mu)
    /\ \A pid \in DOMAIN children :
          (children[pid].status = "running"
              /\ stateOf(children[pid].owner) = STARTING /\ mu = "free") =>
          /\ ENABLED Locked_ReportEmulatorOnline(children[pid].owner, "t")
          /\ ENABLED Locked_StopEmulator(children[pid].owner)
          /\ ENABLED Locked_GetEmulatorSpec(children[pid].owner)

\* The worker that began a start is about to return, still holding the
\* mutex: the emulator is STARTING and its child is with the goroutine that
\* runs it.
C30_Witness ==
    /\ mu # "free"
    /\ pc[mu].at = "returning"
    /\ stateOf(pc[mu].id) = STARTING
    /\ children[emulators[pc[mu].id].cmd].status = "running"

----------------------------------------------------------------------------
\* C31: an accepted ReportEmulatorOnline stores the request's resolved host,
\* makes the pattern set the union of the previous patterns and the
\* request's patterns, and the lookup of the emulator returns the updated
\* entry.
C31_ReportMergesPatterns ==
    [][(last'.op = "ReportEmulatorOnline" /\ last'.code = OK /\ last' # last) =>
        /\ last'.id \in DOMAIN emulators /\ last'.id \in DOMAIN emulators'
        /\ emulators'[last'.id].spec.resolved_target = last'.request.resolved_host
        /\ emulators'[last'.id].spec.target_pattern =
               emulators[last'.id].spec.target_pattern \cup last'.request.target_patterns
        /\ (IF last'.id \in DOMAIN emulators'
            THEN {emulators'[last'.id].spec} ELSE {}) =
               {[emulators[last'.id].spec EXCEPT
                    !.resolved_target = last'.request.resolved_host,
                    !.target_pattern = @ \cup last'.request.target_patterns]}]_vars

\* The report of the tests: host "t" and one new pattern, merged with the
\* pattern the spec came with.
C31_Witness ==
    /\ last.op = "ReportEmulatorOnline"
    /\ last.code = OK
    /\ last.request = [resolved_host |-> "t", target_patterns |-> {"newPattern"}]
    /\ emulators[last.id].spec.resolved_target = "t"
    /\ emulators[last.id].spec.target_pattern = {"pattern1", "newPattern"}

----------------------------------------------------------------------------
----------------------------------------------------------------------------
\* C33: Resolve of a target whose matching entries are all ONLINE with an
\* empty resolved host (the emulator reported no host) returns Unavailable.
C33_ResolveEmptyHostIsUnavailable ==
    (last.op = "Resolve"
        /\ Matching(last.id) # {}
        /\ \A id \in Matching(last.id) :
               emulators[id].state = ONLINE /\ emulators[id].spec.resolved_target = "") =>
        last.code = "Unavailable"

----------------------------------------------------------------------------
\* C34: DeleteEmulatorSpec of a registered id returns success, after which
\* the id is looked up in vain (NotFound) and every other entry is as it was;
\* DeleteEmulatorSpec of an unregistered id returns NotFound and changes no
\* entry.
C34_DeleteRemovesOneEntry ==
    /\ [](last.op = "DeleteEmulatorSpec" =>
            IF last.before = "absent"
            THEN last.code = NotFound
            ELSE /\ last.code = OK
                 /\ last.id \notin DOMAIN emulators
                 /\ GetEmulatorSpec_response(last.id) = [code |-> NotFound, result |-> {}])
    /\ [][last'.op = "DeleteEmulatorSpec" =>
            IF last'.code = NotFound
            THEN emulators' = emulators
            ELSE /\ DOMAIN emulators' = DOMAIN emulators \ {last'.id}
                 /\ \A id \in DOMAIN emulators' : emulators'[id] = emulators[id]]_vars

\* A delete that went through while another emulator, ONLINE, stays
\* registered.
C34_Witness ==
    /\ last.op = "DeleteEmulatorSpec"
    /\ last.code = OK
    /\ last.id \notin DOMAIN emulators
    /\ \E id \in DOMAIN emulators : emulators[id].state = ONLINE

----------------------------------------------------------------------------
\* C35: the state of a registered emulator changes only along OFFLINE ->
\* STARTING, STARTING -> ONLINE, STARTING -> OFFLINE and ONLINE -> OFFLINE,
\* and an emulator that has just been created is OFFLINE.
C35_StateEdges ==
    [][/\ \A id \in DOMAIN emulators \cap DOMAIN emulators' :
              \/ emulators'[id].state = emulators[id].state
              \/ <<emulators[id].state, emulators'[id].state>> \in
                    {<<OFFLINE, STARTING>>, <<STARTING, ONLINE>>,
                     <<STARTING, OFFLINE>>, <<ONLINE, OFFLINE>>}
       /\ \A id \in DOMAIN emulators' \ DOMAIN emulators :
              emulators'[id].state = OFFLINE]_vars

\* An emulator that went from OFFLINE through STARTING to ONLINE: it is
\* ONLINE with the child of its start still running, next to one that was
\* created and not started.
C35_Witness ==
    /\ \E id \in DOMAIN emulators :
           /\ emulators[id].state = ONLINE
           /\ emulators[id].cmd \in DOMAIN children
           /\ children[emulators[id].cmd].status = "running"
    /\ \E id \in DOMAIN emulators :
           emulators[id].state = OFFLINE /\ emulators[id].cmd = NoCmd

----------------------------------------------------------------------------
\* C36: no emulator id has two live children at once, a child being live
\* from its launch until it has exited or been interrupted.
C36_OneLiveChild ==
    \A id \in EmulatorIds :
        Cardinality({pid \in DOMAIN children :
                        /\ children[pid].owner = id
                        /\ children[pid].status = "running"
                        /\ ~children[pid].interrupted}) <= 1

----------------------------------------------------------------------------
\* C40: every entry of the emulator map is stored under the id that the
\* stored spec carries.
C40_KeyIsSpecId ==
    \A id \in DOMAIN emulators : emulators[id].spec.id = id

----------------------------------------------------------------------------
----------------------------------------------------------------------------
----------------------------------------------------------------------------
====
